---- MODULE Spec2Model ----
(***************************************************************************)
(* q_task (src/src/lib.rs): background tasks for a Bevy world.             *)
(*                                                                         *)
(* task!(pool, [event,] body) builds a launcher closure.  Called with the  *)
(* world it spawns an empty entity, spawns the wrapped body on the pool    *)
(* and inserts TaskComponent(task) on the entity.  The wrapped body builds *)
(* a CommandQueue, runs the caller's body on it and pushes one trailing    *)
(* command: despawn the entity, then trigger the event (if any).           *)
(* poll_tasks, a system of the Update schedule, polls every TaskComponent  *)
(* once without blocking and appends a finished task's queue to its        *)
(* Commands; the schedule applies the Commands after the system has run.   *)
(*                                                                         *)
(* Host behaviour the code relies on (bevy_tasks / async-task, bevy_ecs):  *)
(*   - <Pool>::get() panics when the pool has not been initialised;        *)
(*   - poll_once on a Task yields None while the future has not finished,  *)
(*     Some(output) once, when it has, and panics when the task is closed  *)
(*     without an output to give: its future panicked, or the output was   *)
(*     already taken;                                                      *)
(*   - a panic on a pool thread is caught by the pool, the task is closed; *)
(*   - World::trigger runs the observers of the event's type, at once.     *)
(* A panic on the owning thread is final: nothing is run after it.         *)
(***************************************************************************)
EXTENDS Integers, Sequences, FiniteSets, TLC

\* Bounds of the model.
MaxTasks == 2
MaxMut == 1

\* The task pools a launch may name, the event types with an observer, and
\* the marker of a launch without event (the two-argument form of task!).
Pools == {"Io", "Compute"}
Events == {"A", "B"}
NoEvent == "none"

\* The observers are entities of the world, spawned by add_observer before
\* any task is launched.
ObserverIds == 1..Cardinality(Events)
FirstTaskId == Cardinality(Events) + 1
TaskIds == FirstTaskId..(FirstTaskId + MaxTasks - 1)

VARIABLES
    world,      \* [entities, flags, obsHits, effects]: the Bevy World
    tasks,      \* entity id -> the background computation of its TaskComponent
    commands,   \* the Commands buffer of poll_tasks, not yet applied
    pc,         \* the owning thread: "idle" between ticks, "polled" after poll_tasks
    panic,      \* the panic raised on the owning thread: "none", "spawn", "poll"
    pools,      \* the pools that have been initialised
    nextId      \* the id the next spawn_empty returns

vars == <<world, tasks, commands, pc, panic, pools, nextId>>

----------------------------------------------------------------------------
\* Commands (closures over the world) and the effects they have.

\* q.push(|world| { world.resource_mut::<TestResults>().<flag> = true; })
DomainOp(t, i) == [kind |-> "domain", task |-> t, idx |-> i, event |-> NoEvent]

\* q.push(move |world| { world.despawn(id); $(world.trigger($event))? })
FinishOp(t, e) == [kind |-> "finish", task |-> t, idx |-> 0, event |-> e]

Effect(name, t, i, e, live) ==
    [eff |-> name, task |-> t, idx |-> i, event |-> e, live |-> live]

SetFlag(w, t, i) ==
    [w EXCEPT !.flags = @ \cup {<<t, i>>},
              !.effects = Append(@, Effect("set", t, i, NoEvent, t \in w.entities))]

\* A despawn that takes the entities spawned after id with it.
DespawnWide(w, id) ==
    [w EXCEPT !.entities = {x \in @ : x < id},
              !.effects = Append(@, Effect("despawn", id, 0, NoEvent, id \in w.entities))]

Despawn(w, id) ==
    [w EXCEPT !.entities = @ \ {id},
              !.effects = Append(@, Effect("despawn", id, 0, NoEvent, id \in w.entities))]

\* A trigger that reaches the observers of every type.
ObserversAll(e) == Events

\* The observers of e's type run, and no other.
Observers(e) == {e}

Trigger(w, t, e) ==
    [w EXCEPT !.obsHits = [o \in Events |-> IF o \in Observers(e) THEN @[o] + 1 ELSE @[o]],
              !.effects = Append(@, Effect("trigger", t, 0, e, t \in w.entities))]

\* The trailing command with its two calls in the other order.
FinishTriggerFirst(w, id, e) ==
    IF e = NoEvent THEN Despawn(w, id) ELSE Despawn(Trigger(w, id, e), id)

\* A trailing command that forgets the despawn.
FinishNoDespawn(w, id, e) ==
    IF e = NoEvent THEN w ELSE Trigger(w, id, e)

Finish(w, id, e) ==
    LET d == Despawn(w, id)
    IN  IF e = NoEvent THEN d ELSE Trigger(d, id, e)

\* An application that drops the body's own commands.
ApplyOpSkipDomain(w, op) ==
    IF op.kind = "domain" THEN w ELSE Finish(w, op.task, op.event)

ApplyOp(w, op) ==
    IF op.kind = "domain" THEN SetFlag(w, op.task, op.idx)
    ELSE Finish(w, op.task, op.event)

\* An application that takes the buffer as a stack, last command first.
RECURSIVE ApplyQueueLifo(_, _)
ApplyQueueLifo(w, q) ==
    IF q = <<>> THEN w
    ELSE ApplyQueueLifo(ApplyOp(w, q[Len(q)]), SubSeq(q, 1, Len(q) - 1))

\* An application that runs the first command of the buffer and drops the rest.
ApplyQueueHead(w, q) == IF q = <<>> THEN w ELSE ApplyOp(w, Head(q))

RECURSIVE ApplyQueue(_, _)
ApplyQueue(w, q) ==
    IF q = <<>> THEN w ELSE ApplyQueue(ApplyOp(w, Head(q)), Tail(q))

----------------------------------------------------------------------------
\* The state after App construction: the observers exist, nothing is launched;
\* the pools are initialised if the App has the TaskPoolPlugin, else none is.

Init ==
    /\ world = [entities |-> ObserverIds,
                flags |-> {},
                obsHits |-> [o \in Events |-> 0],
                effects |-> <<>>]
    /\ tasks = [t \in {} |-> 0]
    /\ commands = <<>>
    /\ pc = "idle"
    /\ panic = "none"
    /\ pools \in {{}, Pools}
    /\ nextId = FirstTaskId

Launched == DOMAIN tasks

\* Query<&mut TaskComponent>: the entities that carry a TaskComponent.
LiveRecords == {t \in Launched : t \in world.entities}

----------------------------------------------------------------------------
\* task!(pool, [event,] body)(world), on the owning thread.  The body is one
\* that pushes n domain mutations and returns (or panics on the way).

\* The bodies launched: one that pushes nothing, one that pushes MaxMut
\* domain mutations.
BodySizes == {0, MaxMut}

NewTask(e, n) == [status |-> "spawned", event |-> e, nMut |-> n, q |-> <<>>]

\* A launcher that triggers the event at once, not in the trailing command.
LaunchNotify(pool, e, n) ==
    /\ pc = "idle"
    /\ panic = "none"
    /\ nextId \in TaskIds
    /\ pool \in pools
    /\ world' = LET w == [world EXCEPT !.entities = @ \cup {nextId}]
                IN  IF e = NoEvent THEN w ELSE Trigger(w, nextId, e)
    /\ nextId' = nextId + 1
    /\ tasks' = (nextId :> NewTask(e, n)) @@ tasks
    /\ UNCHANGED <<commands, pc, panic, pools>>

Launch(pool, e, n) ==
    /\ pc = "idle"
    /\ panic = "none"
    /\ nextId \in TaskIds
    \* let mut entity = world.spawn_empty(); let id = entity.id();
    /\ world' = [world EXCEPT !.entities = @ \cup {nextId}]
    /\ nextId' = nextId + 1
    \* <$pool_type>::get().spawn(..); entity.insert(TaskComponent(task));
    /\ IF pool \in pools
       THEN /\ tasks' = (nextId :> NewTask(e, n)) @@ tasks
            /\ panic' = panic
       ELSE /\ tasks' = tasks
            /\ panic' = "spawn"
    /\ UNCHANGED <<commands, pc, pools>>

----------------------------------------------------------------------------
\* The wrapped body, on a pool thread.

\* let mut q = CommandQueue::default(); the body starts.
Start(t) ==
    /\ t \in Launched
    /\ tasks[t].status = "spawned"
    /\ tasks' = [tasks EXCEPT ![t].status = "running", ![t].q = <<>>]
    /\ UNCHANGED <<world, commands, pc, panic, pools, nextId>>

\* The body pushes its next domain mutation.
Push(t) ==
    /\ t \in Launched
    /\ tasks[t].status = "running"
    /\ Len(tasks[t].q) < tasks[t].nMut
    /\ tasks' = [tasks EXCEPT ![t].q = Append(@, DomainOp(t, Len(@) + 1))]
    /\ UNCHANGED <<world, commands, pc, panic, pools, nextId>>

\* A wrapper that pushes the trailing command before it runs the body.
OutputFirst(q, t, e) == <<FinishOp(t, e)>> \o q

\* The queue the wrapped body returns: the body's, with the trailing command.
Output(q, t, e) == Append(q, FinishOp(t, e))

\* A body that writes the world itself, from the pool thread.
CompleteDirect(t) ==
    /\ t \in Launched
    /\ tasks[t].status = "running"
    /\ Len(tasks[t].q) = tasks[t].nMut
    /\ tasks' = [tasks EXCEPT ![t].status = "ready",
                              ![t].q = <<FinishOp(t, tasks[t].event)>>]
    /\ world' = ApplyQueue(world, tasks[t].q)
    /\ UNCHANGED <<commands, pc, panic, pools, nextId>>

\* The body returns; the trailing command is pushed and q is the output.
Complete(t) ==
    /\ t \in Launched
    /\ tasks[t].status = "running"
    /\ Len(tasks[t].q) = tasks[t].nMut
    /\ tasks' = [tasks EXCEPT ![t].status = "ready",
                              ![t].q = Output(@, t, tasks[t].event)]
    /\ UNCHANGED <<world, commands, pc, panic, pools, nextId>>

\* A body whose panic hands over the queue as far as it was built.
AbortPartial(t) ==
    /\ t \in Launched
    /\ tasks[t].status = "running"
    /\ tasks' = [tasks EXCEPT ![t].status = "ready"]
    /\ UNCHANGED <<world, commands, pc, panic, pools, nextId>>

\* The body panics: its queue is dropped and the task is closed, no output.
Abort(t) ==
    /\ t \in Launched
    /\ tasks[t].status = "running"
    /\ tasks' = [tasks EXCEPT ![t].status = "failed", ![t].q = <<>>]
    /\ UNCHANGED <<world, commands, pc, panic, pools, nextId>>

\* The pool threads run as long as the process does.
Worker(t) == panic = "none" /\ (Start(t) \/ Push(t) \/ Complete(t) \/ Abort(t))

----------------------------------------------------------------------------
\* poll_tasks, on the owning thread.

\* A poll that never reports a completion.
PollOnceNever(status) ==
    CASE status \in {"spawned", "running", "ready"} -> "none"
      [] OTHER -> "panic"

\* A poll that takes the queue of a body that is still running.
PollOnceEager(status) ==
    CASE status = "spawned" -> "none"
      [] status \in {"running", "ready"} -> "some"
      [] OTHER -> "panic"

\* A poll that swallows the failure of a body.
PollOnceSwallow(status) ==
    CASE status \in {"spawned", "running", "failed"} -> "none"
      [] status = "ready" -> "some"
      [] OTHER -> "panic"

\* block_on(future::poll_once(&mut task.0)) by the state of the task.
PollOnce(status) ==
    CASE status \in {"spawned", "running"} -> "none"
      [] status = "ready" -> "some"
      [] OTHER -> "panic"

\* A take that leaves the output in the task.
TakeKeep(tk, t) == tk

\* Some(q): the output is moved out of the task, which is closed.
Take(tk, t) == [tk EXCEPT ![t].status = "taken", ![t].q = <<>>]

\* for mut task in tasks { if let Some(mut q) = .. { commands.append(&mut q); } }
\* over the records in the order ord; a panic ends the loop.
RECURSIVE PollLoop(_, _, _)
PollLoop(ord, tk, cmds) ==
    IF ord = <<>> THEN [tasks |-> tk, commands |-> cmds, panicked |-> FALSE]
    ELSE LET t == Head(ord)
             r == PollOnce(tk[t].status)
         IN  CASE r = "panic" -> [tasks |-> tk, commands |-> cmds, panicked |-> TRUE]
               [] r = "none" -> PollLoop(Tail(ord), tk, cmds)
               [] OTHER -> PollLoop(Tail(ord), Take(tk, t), cmds \o tk[t].q)

\* The orders in which a query may iterate over the records S.
Orders(S) ==
    {f \in [1..Cardinality(S) -> S] : \A i, j \in DOMAIN f : f[i] = f[j] => i = j}

Poll ==
    /\ panic = "none"
    /\ \E ord \in Orders(LiveRecords) :
         LET r == PollLoop(ord, tasks, commands)
         IN  /\ tasks' = r.tasks
             /\ commands' = r.commands
             /\ panic' = IF r.panicked THEN "poll" ELSE panic
             /\ pc' = IF r.panicked THEN pc ELSE "polled"
    /\ UNCHANGED <<world, pools, nextId>>

\* A poll that waits for the bodies that have not finished.
PollTasksBlocking ==
    /\ pc = "idle"
    /\ \A t \in LiveRecords : tasks[t].status \notin {"spawned", "running"}
    /\ Poll

\* The run of poll_tasks in the Update schedule.
PollTasks == pc = "idle" /\ Poll

\* The schedule applies the system's Commands after the system has run.
ApplyDeferred ==
    /\ pc = "polled"
    /\ panic = "none"
    /\ world' = ApplyQueue(world, commands)
    /\ commands' = <<>>
    /\ pc' = "idle"
    /\ UNCHANGED <<tasks, panic, pools, nextId>>

\* A host that runs poll_tasks again before the Commands are applied.
RePoll == pc = "polled" /\ Poll

----------------------------------------------------------------------------
Next ==
    \/ \E pool \in Pools, e \in Events \cup {NoEvent}, n \in BodySizes : Launch(pool, e, n)
    \/ \E t \in TaskIds : Worker(t)
    \/ PollTasks
    \/ ApplyDeferred

Spec == Init /\ [][Next]_vars

\* The third specification launches bodies that push several mutations.
LongBody == MaxMut + 1

NextLong ==
    \/ \E pool \in Pools, e \in Events \cup {NoEvent} : Launch(pool, e, LongBody)
    \/ \E t \in TaskIds : Worker(t)
    \/ PollTasks
    \/ ApplyDeferred

SpecLong == Init /\ [][NextLong]_vars

\* The host of the second specification may poll twice in a tick.
NextRepoll == Next \/ RePoll

SpecRepoll == Init /\ [][NextRepoll]_vars

\* Ticks keep occurring: the schedule runner runs Update again and again.
FairSpec == Spec /\ WF_vars(PollTasks) /\ WF_vars(ApplyDeferred)

----------------------------------------------------------------------------
\* What the world's effect log records about a task.

EffectsOf(name, t) ==
    {i \in DOMAIN world.effects :
        world.effects[i].eff = name /\ world.effects[i].task = t}

\* The deliveries of t's completion notification.
Delivered(t) == Cardinality(EffectsOf("trigger", t))

\* The commands of t waiting in the buffer of poll_tasks.
Buffered(t) == {i \in DOMAIN commands : commands[i].task = t}

Pending(t) == t \in Launched /\ tasks[t].status \in {"spawned", "running"}

Gone(t) == t \in Launched /\ t \notin world.entities

FailedLive == \E t \in LiveRecords : tasks[t].status = "failed"

\* A step of poll_tasks: it ends in "polled", or in the panic of a poll.
PollStep == pc = "idle" /\ panic = "none" /\ (pc' = "polled" \/ panic' = "poll")

\* The step that applies the buffer of poll_tasks.
ApplyStep == pc = "polled" /\ pc' = "idle"

----------------------------------------------------------------------------
\* C1: a task whose body has completed normally is eventually removed from
\* the live set, and its notification, if it has one, is eventually
\* delivered, as long as ticks keep occurring (the owning thread has not
\* panicked).
C1_EventuallyRemoved ==
    \A t \in TaskIds :
        (t \in Launched /\ tasks[t].status = "ready")
            ~> (\/ panic # "none"
                \/ /\ Gone(t)
                   /\ tasks[t].event # NoEvent => Delivered(t) = 1)

C1_Witness ==
    \E t \in Launched :
        /\ panic = "none"
        /\ tasks[t].status = "taken"
        /\ tasks[t].event # NoEvent
        /\ Gone(t)
        /\ Delivered(t) = 1

\* C2: a task's notification is delivered at most once, never when the task
\* was launched without one, and never while its record is in the live set.
C2_AtMostOnceAfterRemoval ==
    /\ \A t \in Launched :
         /\ Delivered(t) \in {0, 1}
         /\ tasks[t].event = NoEvent => Delivered(t) = 0
         /\ Delivered(t) > 0 => t \notin world.entities
    /\ \A i \in DOMAIN world.effects :
         world.effects[i].eff = "trigger" => ~world.effects[i].live

C2_Witness ==
    \E t, u \in Launched :
        /\ Delivered(t) = 1
        /\ tasks[u].event = NoEvent /\ Gone(u)

\* C3: a record whose body has not finished is untouched: it is live, none
\* of its commands is buffered or applied, no notification of it is
\* delivered; and a poll or an application leaves it as it is.
Untouched(t) ==
    /\ t \in world.entities
    /\ Buffered(t) = {}
    /\ \A i \in DOMAIN world.effects : world.effects[i].task # t
    /\ \A f \in world.flags : f[1] # t

C3_PendingUntouched ==
    /\ [](\A t \in TaskIds : Pending(t) => Untouched(t))
    /\ [][\A t \in TaskIds :
            (Pending(t) /\ (PollStep \/ ApplyStep))
                => (tasks'[t] = tasks[t] /\ t \in world'.entities)]_vars

\* A later task has been polled, applied and removed while an earlier one
\* has not finished.
C3_Witness ==
    \E t, u \in Launched :
        /\ t < u
        /\ Pending(t) /\ tasks[t].nMut > 0
        /\ Gone(u) /\ world.flags # {}
        /\ pc = "idle"

\* C4: whatever the number of polls in a tick, the output of a task is taken
\* at most once: each of its commands is buffered or applied at most once,
\* so its mutations, its despawn and its notification happen at most once.
Occurrences(t, kind, i) ==
    Cardinality({k \in DOMAIN commands :
                    /\ commands[k].kind = kind
                    /\ commands[k].task = t
                    /\ commands[k].idx = i})

Applications(t, name, i) ==
    Cardinality({k \in EffectsOf(name, t) : world.effects[k].idx = i})

C4_TakenAtMostOnce ==
    \A t \in Launched :
        /\ Occurrences(t, "finish", 0) + Applications(t, "despawn", 0) <= 1
        /\ Occurrences(t, "finish", 0) + Delivered(t) <= 1
        /\ \A i \in 1..MaxMut :
             Occurrences(t, "domain", i) + Applications(t, "set", i) <= 1

\* poll_tasks has run again in the tick in which it took t's output, after
\* u finished: it took u's output too and then met t.
C4_Witness ==
    \E t, u \in LiveRecords :
        /\ t # u
        /\ pc = "polled"
        /\ panic = "poll"
        /\ tasks[t].status = "taken" /\ tasks[u].status = "taken"
        /\ Buffered(t) # {} /\ Buffered(u) # {}
        /\ commands[1].task = t /\ commands[Len(commands)].task = u
        /\ ~FailedLive

----------------------------------------------------------------------------
\* C5, as claimed: one tick after the launch of a task whose body pushes
\* its mutation and returns, the flag is set, the notification delivered
\* and the record gone, however the worker is scheduled.
NormalBody(t) == t \in Launched /\ tasks[t].nMut > 0 /\ tasks[t].status # "failed"

Merged(t) ==
    /\ \A i \in 1..tasks[t].nMut : <<t, i>> \in world.flags
    /\ t \notin world.entities
    /\ tasks[t].event # NoEvent => Delivered(t) = 1

TriggersOf(e) ==
    {i \in DOMAIN world.effects :
        world.effects[i].eff = "trigger" /\ world.effects[i].event = e}

C6_NoCrossDelivery ==
    /\ \A e \in Events :
         /\ world.obsHits[e] = Cardinality(TriggersOf(e))
         /\ world.obsHits[e] =
                Cardinality({t \in Launched : tasks[t].event = e /\ Gone(t)})
    /\ \A t \in Launched :
         /\ (Gone(t) /\ tasks[t].event # NoEvent) => Delivered(t) = 1
         /\ \A i \in EffectsOf("trigger", t) :
              world.effects[i].event = tasks[t].event

\* A's task has been applied, B's has not completed: only A's observer ran.
C6_Witness ==
    \E t, u \in Launched :
        /\ tasks[t].event = "A" /\ Gone(t)
        /\ tasks[u].event = "B" /\ Pending(u)
        /\ world.obsHits["A"] = 1
        /\ world.obsHits["B"] = 0

\* C7: poll_tasks can run whenever the owning thread is between ticks, and
\* a run that polls the record of a body that has aborted panics on the
\* owning thread: no poll succeeds while such a record is live.
C7_FailurePropagates ==
    /\ [](pc = "idle" /\ panic = "none" => ENABLED PollTasks)
    /\ [][(PollStep /\ FailedLive) => (panic' = "poll" /\ pc' # "polled")]_vars

C7_Witness ==
    /\ panic = "poll"
    /\ pc = "idle"
    /\ FailedLive

\* C8, as claimed: a launch whose submission to the pool fails leaves the
\* set of live entities as it was.
C8_AsClaimed ==
    [][(panic = "none" /\ panic' = "spawn")
        => world'.entities = world.entities]_vars

\* C9: the world and the buffer of poll_tasks change only in steps of the
\* owning thread (a launch, a poll, an application); a step in which a body
\* starts, pushes, completes or aborts changes neither.
BodyStep ==
    \E t \in Launched :
        /\ tasks'[t] # tasks[t]
        /\ tasks'[t].status \in {"running", "ready", "failed"}

LaunchStep == pc = "idle" /\ panic = "none" /\ nextId' = nextId + 1

C9_OwnerOnly ==
    /\ [][BodyStep => (world' = world /\ commands' = commands)]_vars
    /\ [][world' # world => (LaunchStep \/ ApplyStep)]_vars
    /\ [][commands' # commands => (PollStep \/ ApplyStep)]_vars

\* A body has completed with its queue built while the world holds the
\* effects of another task.
C9_Witness ==
    \E t, u \in Launched :
        /\ tasks[t].status = "ready" /\ Len(tasks[t].q) = MaxMut + 1
        /\ t \in world.entities
        /\ Gone(u) /\ world.flags # {}

\* C10: while no live record's body has aborted, poll_tasks can run between
\* ticks whatever the bodies are doing, it does not panic, and the buffer
\* can be applied after it.
C10_NeverBlocks ==
    (panic = "none" /\ ~FailedLive) =>
        /\ pc = "idle" => /\ ENABLED (PollTasks /\ pc' = "polled")
                          /\ ~ENABLED (PollTasks /\ panic' = "poll")
        /\ pc = "polled" => ENABLED ApplyDeferred

\* A poll has completed over a body that has not started and one that runs.
C10_Witness ==
    \E t, u \in LiveRecords :
        /\ pc = "polled"
        /\ panic = "none"
        /\ tasks[t].status = "spawned"
        /\ tasks[u].status = "running"

----------------------------------------------------------------------------
\* C11: the live records are the launched computations whose completion has
\* not been observed and applied: a launched task's entity is in the world
\* unless poll_tasks has taken its output and the buffer holding it has been
\* applied; the record appears in the step that spawns the computation,
\* before the body starts, and disappears only from a task that was taken.
Applied(t) == tasks[t].status = "taken" /\ Buffered(t) = {}

C11_RecordPerOutstandingTask ==
    /\ [](\A t \in Launched :
            /\ t \in world.entities <=> ~Applied(t)
            /\ t \in LiveRecords <=> Applications(t, "despawn", 0) = 0)
    /\ [][\A t \in TaskIds :
            /\ (t \in Launched' /\ t \notin Launched)
                  => /\ t \notin world.entities /\ t \in world'.entities
                     /\ tasks'[t].status = "spawned"
            /\ (t \in LiveRecords /\ t \notin LiveRecords')
                  => (tasks[t].status = "taken" /\ ApplyStep)]_vars

\* One task is applied and gone, one is taken and waits in the buffer, and
\* the world holds exactly the record of the second.
C11_Witness ==
    \E t, u \in Launched :
        /\ Gone(t) /\ Applied(t)
        /\ tasks[u].status = "taken" /\ Buffered(u) # {}
        /\ LiveRecords = {u}
        /\ panic = "none"

----------------------------------------------------------------------------
\* C12: the queue a task returns is the body's domain mutations in the order
\* of the pushes followed by the trailing command, and it is buffered and
\* applied in that order: the mutations one after the other, then the
\* despawn of the task's own entity, then, if the task has an event and only
\* then, the trigger.
OpsOf(q, t) == SelectSeq(q, LAMBDA op : op.task = t)

ExpectedQueue(t) ==
    [i \in 1..(tasks[t].nMut + 1) |->
        IF i <= tasks[t].nMut THEN DomainOp(t, i) ELSE FinishOp(t, tasks[t].event)]

AppliedOf(t) ==
    LET f == SelectSeq(world.effects, LAMBDA x : x.task = t)
    IN  [i \in DOMAIN f |-> <<f[i].eff, f[i].idx>>]

ExpectedEffects(t) ==
    LET n == tasks[t].nMut
        k == IF tasks[t].event = NoEvent THEN n + 1 ELSE n + 2
    IN  [i \in 1..k |->
            IF i <= n THEN <<"set", i>>
            ELSE IF i = n + 1 THEN <<"despawn", 0>> ELSE <<"trigger", 0>>]

C12_QueueOrder ==
    \A t \in Launched :
        /\ tasks[t].status = "ready" => tasks[t].q = ExpectedQueue(t)
        /\ Buffered(t) # {} => OpsOf(commands, t) = ExpectedQueue(t)
        /\ AppliedOf(t) # <<>> => AppliedOf(t) = ExpectedEffects(t)
        /\ \A i \in EffectsOf("set", t) : world.effects[i].live

\* A task with several mutations and an event has been applied.
C12_Witness ==
    \E t \in Launched :
        /\ tasks[t].nMut = LongBody /\ LongBody > 1
        /\ tasks[t].event # NoEvent
        /\ Len(AppliedOf(t)) = LongBody + 2

----------------------------------------------------------------------------
\* C13: the buffer is applied in the order in which poll_tasks appended to
\* it.  A poll appends, after what the buffer holds, the whole queue of each
\* task it takes, one task after the other; an application appends to the
\* effects of the earlier ticks the effects of the buffered commands, task
\* by task in the order of the buffer, and empties the buffer; so the
\* commands of a task are never interleaved with those of another.
RECURSIVE Blocks(_)
Blocks(seq) ==
    IF seq = <<>> THEN <<>>
    ELSE LET r == Blocks(Tail(seq))
         IN  IF r # <<>> /\ Head(r) = Head(seq).task THEN r
             ELSE <<Head(seq).task>> \o r

NoRepeat(seq) == \A i, j \in DOMAIN seq : seq[i] = seq[j] => i = j

IsPrefix(a, b) == Len(a) <= Len(b) /\ SubSeq(b, 1, Len(a)) = a

Suffix(a, b) == SubSeq(b, Len(a) + 1, Len(b))

C13_InsertionOrder ==
    /\ [](NoRepeat(Blocks(world.effects)) /\ NoRepeat(Blocks(commands)))
    /\ [][PollStep =>
            /\ IsPrefix(commands, commands')
            /\ \A t \in LiveRecords :
                 IF tasks'[t].status = "taken" /\ tasks[t].status = "ready"
                 THEN OpsOf(Suffix(commands, commands'), t) = tasks[t].q
                 ELSE OpsOf(Suffix(commands, commands'), t) = <<>>]_vars
    /\ [][ApplyStep =>
            /\ commands' = <<>>
            /\ IsPrefix(world.effects, world'.effects)
            /\ Blocks(Suffix(world.effects, world'.effects)) = Blocks(commands)]_vars

\* A poll has taken two tasks with mutations, the later-launched first.
C13_Witness ==
    /\ pc = "polled"
    /\ panic = "none"
    /\ Len(Blocks(commands)) = 2
    /\ Blocks(commands)[1] > Blocks(commands)[2]
    /\ \A t \in LiveRecords : tasks[t].nMut > 0 /\ Len(OpsOf(commands, t)) > 1

----------------------------------------------------------------------------
\* C14: a task whose body has finished when poll_tasks runs is taken by that
\* poll, and the application that ends the tick applies all its commands
\* and removes its record: between ticks the buffer is empty and no live
\* record is one whose output has been taken.
C14_AppliedInTick ==
    /\ []((pc = "idle" /\ panic = "none") =>
            /\ commands = <<>>
            /\ \A t \in LiveRecords : tasks[t].status # "taken")
    /\ [][(PollStep /\ panic' = "none") =>
            \A t \in LiveRecords :
                tasks[t].status = "ready" =>
                    /\ tasks'[t].status = "taken"
                    /\ OpsOf(commands', t) = tasks[t].q]_vars
    /\ [][ApplyStep =>
            \A t \in LiveRecords :
                tasks[t].status = "taken" =>
                    /\ t \notin world'.entities
                    /\ AppliedOf(t)' = ExpectedEffects(t)
                    /\ \A i \in 1..tasks[t].nMut : <<t, i>> \in world'.flags]_vars

\* A tick has ended with one task applied and gone; another, which finished
\* after the poll, waits for the next tick.
C14_Witness ==
    \E t, u \in Launched :
        /\ pc = "idle" /\ panic = "none"
        /\ Gone(t) /\ tasks[t].nMut > 0
        /\ u \in LiveRecords /\ tasks[u].status = "ready"
        /\ AppliedOf(u) = <<>>

----------------------------------------------------------------------------
\* C15: a launch that spawns its task writes the world once: it adds the new
\* record, not started, and leaves the other entities, the other tasks, the
\* flags, the observers' counts, the effects and the buffer as they were;
\* flags, counts and effects change only when the buffer is applied.
SpawnedStep == LaunchStep /\ panic' = "none"

C15_LaunchWritesOnce ==
    /\ [][SpawnedStep =>
            /\ nextId \notin world.entities
            /\ world' = [world EXCEPT !.entities = @ \cup {nextId}]
            /\ Launched' = Launched \cup {nextId}
            /\ tasks'[nextId].status = "spawned" /\ tasks'[nextId].q = <<>>
            /\ \A t \in Launched : tasks'[t] = tasks[t]
            /\ commands' = commands]_vars
    /\ [][(\/ world'.flags # world.flags
           \/ world'.obsHits # world.obsHits
           \/ world'.effects # world.effects) => ApplyStep]_vars

\* A task with an event and mutations has just been launched into a world
\* that holds the effects of an earlier task.
C15_Witness ==
    \E t, u \in Launched :
        /\ t \in LiveRecords /\ tasks[t].status = "spawned"
        /\ tasks[t].event # NoEvent /\ tasks[t].nMut > 0
        /\ AppliedOf(t) = <<>>
        /\ Gone(u) /\ u < t /\ world.flags # {}
        /\ pc = "idle" /\ panic = "none"

----------------------------------------------------------------------------
\* C16: no partial result.  Of each task either nothing is buffered and
\* nothing applied, or its body returned, its output was taken, and the
\* whole queue is what is buffered or applied; a task whose body aborted
\* stays live with no mutation applied, no despawn and no notification.
FlagsOf(t) == {f \in world.flags : f[1] = t}

C16_NoPartialResult ==
    \A t \in Launched :
        /\ \/ Buffered(t) = {}
           \/ tasks[t].status = "taken" /\ OpsOf(commands, t) = ExpectedQueue(t)
        /\ \/ AppliedOf(t) = <<>> /\ FlagsOf(t) = {}
           \/ /\ tasks[t].status = "taken"
              /\ AppliedOf(t) = ExpectedEffects(t)
              /\ FlagsOf(t) = {<<t, i>> : i \in 1..tasks[t].nMut}
        /\ tasks[t].status = "failed" => (Untouched(t) /\ Delivered(t) = 0)

\* The body of a task with several mutations has aborted and a poll has
\* panicked on it, after another task was merged whole.
C16_Witness ==
    \E t, u \in Launched :
        /\ tasks[t].status = "failed" /\ tasks[t].nMut > 1
        /\ tasks[t].event # NoEvent
        /\ panic = "poll"
        /\ Gone(u) /\ AppliedOf(u) = ExpectedEffects(u)

----------------------------------------------------------------------------
\* C17: the application of the buffer removes the records of the tasks whose
\* output the poll of the tick took, each by its own despawn of an entity
\* that was there, and no other entity: the other tasks' records and the
\* observers stay, and the number of live records drops by the number of
\* tasks taken.
TakenLive == {t \in LiveRecords : tasks[t].status = "taken"}

C17_DestroysOwnRecord ==
    /\ [](/\ ObserverIds \subseteq world.entities
          /\ \A i \in DOMAIN world.effects :
               world.effects[i].eff = "despawn" => world.effects[i].live)
    /\ [][ApplyStep =>
            /\ world'.entities = world.entities \ TakenLive
            /\ LiveRecords' = LiveRecords \ TakenLive
            /\ Cardinality(LiveRecords') =
                   Cardinality(LiveRecords) - Cardinality(TakenLive)]_vars

\* The earlier of two tasks has been applied and removed; the later one,
\* whose body has finished too, and the observers are still there.
C17_Witness ==
    \E t, u \in Launched :
        /\ t < u
        /\ Gone(t) /\ Delivered(t) = 1
        /\ LiveRecords = {u} /\ tasks[u].status = "ready"
        /\ world.entities = ObserverIds \cup {u}
        /\ pc = "idle"

====
